---- MODULE Spec2Model ----
(***************************************************************************)
(* Model of the label-PDF order fulfilment engine:                         *)
(*   core/pdf_rw.py          build_pdf_from_dataframe, find_pdf_by_article_*)
(*                           size, cut_first_n_pages_unique, merge_pdfs    *)
(*   services/printed_codes  register_code_if_new, get_all_codes           *)
(*   core/pdf_cleanup.py     purge_known_codes_in_dir                      *)
(*   bot/jobs_orders.py      process_orders_job                            *)
(*                                                                         *)
(* A file of PDF_DIR is a sequence of pages; <<>> stands for "no such      *)
(* file".  All fulfilment runs are coroutines of one asyncio event loop:   *)
(* the code between two awaits runs without interleaving.  The awaits of a *)
(* run are the INSERT of register_code_if_new, session.commit() and the    *)
(* sending of the result.  The variable turn holds the run whose           *)
(* synchronous stretch is in progress when the model splits that stretch   *)
(* into several actions (one per order line).                              *)
(*                                                                         *)
(* The registry is a PostgreSQL table used through one transaction per     *)
(* run: committed are the durable rows, pending[r] the rows inserted by    *)
(* the open transaction of run r.  INSERT .. ON CONFLICT DO NOTHING on a   *)
(* row inserted by another open transaction waits for that transaction to  *)
(* end.                                                                    *)
(***************************************************************************)
EXTENDS Integers, Sequences, FiniteSets, TLC

\* ---------------------------------------------------------------- bounds
MaxPages == 3      \* pages in the inventory at the start
MaxQty   == 2      \* largest quantity of an order line
MaxLines == 2      \* rows of one order
MaxPurges == 2     \* purge sweeps in one behaviour
MaxSharedPages == 2   \* pages in the inventory when two runs share it
MaxJobs == 3          \* jobs submitted to the job queue
MaxReturnPages == 2   \* pages of a returned document

Concurrency == 2   \* jq_configure(process_orders_job, concurrency=2)

Runs  == 1..Concurrency
Docs  == {"d1", "d2"}                \* documents uploaded to PDF_DIR
Files == Docs \cup {"result"}        \* every *.pdf name of PDF_DIR
Codes == {"A", "B"}
NoCode == "none"                     \* _extract_code_from_text returned None
NoFile == "nofile"

\* the text of every page of the modelled inventory names article X, size M
PageArticle == "X"
PageSize    == "M"

\* a cell of the quantity column: an integer or something int() rejects
Cells == [k : {"int"}, v : (0 - 1)..MaxQty] \cup {[k |-> "text", v |-> 0]}
GoodCells == {c \in Cells : c.k = "int" /\ c.v >= 1}
\* article and size of an order line
Keys  == {<<"X", "M">>, <<"Y", "M">>}

\* ---- core/pdf_splitter.py: the values a page's text yields for the key
MaxSplitPages == 3    \* pages of a document handed to split_pdf_by_meta
MaxClock == 1         \* seconds the clock advances in one behaviour
MaxSplits == 2        \* splits in one behaviour
NoMeta == "nometa"    \* _extract_page_meta returned None for the field
\* _safe_name: "/" becomes "-" (the values used hold no other character that
\* _safe_name changes and are shorter than 120 characters)
SafeName(sv) == IF sv = "a/b" THEN "a-b" ELSE sv
MetaKeys == {<<"a/b", "M", "red">>, <<"a-b", "M", "red">>, <<"a/b", "M", "blue">>}
PageMetas == MetaKeys \cup {<<NoMeta, "M", "red">>, <<"a/b", NoMeta, "red">>,
                            <<"a/b", "M", NoMeta>>}
\* <art>__<size>__<color>__<n>p_<ts>.pdf
OutName(key, n, ts) == <<SafeName(key[1]), SafeName(key[2]), SafeName(key[3]), n, ts>>
OutNames == {OutName(k, n, ts) : k \in MetaKeys, n \in 1..MaxSplitPages, ts \in 0..MaxClock}

VARIABLES
    docs,        \* PDF_DIR: file name -> sequence of pages
    bundles,     \* PDF_DIR/tmp: <<stem, k>> -> pages of <stem>__head_<k>.pdf
    committed,   \* printed_codes: durable rows
    pending,     \* printed_codes: rows of the open transaction of each run
    tx,          \* state of the transaction of each run
    turn,        \* run inside a synchronous stretch (0: event loop is free)
    pc,          \* position of each run
    li,          \* rows of the order read so far
    line,        \* the row being processed
    cut,         \* locals of cut_first_n_pages_unique
    isNew,       \* result of register_code_if_new, until the run takes it
    cutParts,    \* cut_parts of build_pdf_from_dataframe
    shortages,   \* shortages of build_pdf_from_dataframe
    ppc, psnap, purges,   \* purge sweep: position, all_codes, sweeps done
    calls,       \* history: <<run, code, result>> of every register_code_if_new
    docs0,       \* history: the inventory at the start
    bundled,     \* history: pages ever written into a head bundle
    consumed,    \* history: pages each run added to its head bundles, in order
    swept,       \* history: all_codes and PDF_DIR at the end of the last sweep
    \* bot/job_queue.py: _state.queue, the Job objects, the job each worker
    \* holds, the state of each worker task, _state.seq, _state.on_job,
    \* history: how often each job was started
    jqueue, jobs, wjob, wstate, jseq, onJob, jstarts,
    \* _state.running, the position and locals of stop(), and the last call
    \* of start() or stop() with its outcome
    running, stopst, qlast,
    \* core/pdf_splitter.py: OUT_DIR, the clock, the position of the split,
    \* the source pages, groups, the outputs written, skipped_without_meta
    outs, now, spc, ssrc, sgroups, souts, sskipped, splits,
    \* core/return_pdf.py: position, the returned pages, codes still to look
    \* up, deleted_codes, the registry rows when the handler began
    rpc, rdoc, rcodes, rdel, rbefore,
    \* a function of core/pdf_rw.py applied to a value: the argument, the result
    xin, xout,
    \* the rewrite of one document step by step: its position and locals, and
    \* the pages of the temporary file under PDF_DIR/tmp
    rw, tmpf

vars == <<docs, bundles, committed, pending, tx, turn, pc, li, line, cut,
          isNew, cutParts, shortages, ppc, psnap, purges, calls, docs0, bundled,
          consumed, swept,
          jqueue, jobs, wjob, wstate, jseq, onJob, jstarts, running, stopst, qlast,
          outs, now, spc, ssrc, sgroups, souts, sskipped, splits,
          rpc, rdoc, rcodes, rdel, rbefore, xin, xout, rw, tmpf>>
queueVars  == <<jqueue, jobs, wjob, wstate, jseq, onJob, jstarts, running, stopst, qlast>>
splitVars  == <<outs, now, spc, ssrc, sgroups, souts, sskipped, splits>>
returnVars == <<rpc, rdoc, rcodes, rdel, rbefore>>
pureVars   == <<xin, xout>>
rwVars     == <<rw, tmpf>>
extVars    == <<queueVars, splitVars, returnVars, pureVars, rwVars>>

\* ------------------------------------------------------------ helpers
Max(a, b) == IF a >= b THEN a ELSE b
Min2(a, b) == IF a <= b THEN a ELSE b

HasCode(p) == p.code # NoCode

\* a scan that treats a page without a code like any other page
Scannable_All(p) == TRUE
\* code = _extract_page_code(..); if not code: continue
Scannable(p) == HasCode(p)

\* _build_tail_writer: the pages with an index in keep, in page order
BuildTail(pages, keep) ==
    LET F[i \in 0..Len(pages)] ==
            IF i = 0 THEN <<>>
            ELSE IF i \in keep THEN Append(F[i - 1], pages[i]) ELSE F[i - 1]
    IN F[Len(pages)]

\* the scan of cut_first_n_pages_unique skips pages without a code: index of
\* the first page at or after i that has one, 0 if there is none
NextCoded(pages, i) ==
    LET S == {j \in i..Len(pages) : Scannable(pages[j])}
    IN IF S = {} THEN 0 ELSE CHOOSE j \in S : \A k \in S : j <= k

CodesOf(pages) == {pages[i].code : i \in 1..Len(pages)} \ {NoCode}

\* a test that lets the quantity 0 through
QtyRejected_Neg(cell) == cell.k # "int" \/ cell.v < 0
\* int(row.iloc[idx_qty]) and the test qty <= 0
QtyRejected(cell) == cell.k # "int" \/ cell.v <= 0

\* find_pdf_by_article_size: the files whose text holds article and size
Matches(f, key) ==
    /\ docs[f] # <<>>
    /\ key[1] = PageArticle
    /\ key[2] = PageSize
Candidates(key) == {f \in Files : Matches(f, key)}

NoLine == [key |-> <<"X", "M">>, cell |-> [k |-> "text", v |-> 0], fresh |-> 0]
EmptyCut == [src |-> NoFile, n |-> 0, snap |-> <<>>, idx |-> 0, del |-> {},
             head |-> <<>>, reg0 |-> {}]

\* ------------------------------------------------------------- Init
\* an inventory: each document a sequence of pages; a page is its origin
\* (document, position) and the code its text yields
CodeSeqs == UNION {[1..n -> Codes \cup {NoCode}] : n \in 0..MaxPages}
MkDoc(d, cs) == [i \in 1..Len(cs) |-> [doc |-> d, pos |-> i, code |-> cs[i]]]
Inventories(total) ==
    {[f \in Files |-> IF f \in Docs THEN MkDoc(f, cs[f]) ELSE <<>>] :
        cs \in {x \in [Docs -> CodeSeqs] :
                   Len(x["d1"]) + Len(x["d2"]) <= total}}

\* nothing submitted, no worker started, no handler configured
QueueIdle ==
    /\ jqueue = <<>> /\ jobs = <<>> /\ jstarts = <<>>
    /\ wjob = [w \in Runs |-> 0]
    /\ wstate = [w \in Runs |-> "off"]
    /\ jseq = 1
    /\ onJob = FALSE
    /\ running = FALSE
    /\ stopst = [pc |-> "idle", njobs |-> 0]
    /\ qlast = "none"

\* no split under way, OUT_DIR empty
SplitIdle ==
    /\ outs = [nm \in OutNames |-> <<>>]
    /\ now = 0 /\ spc = "idle" /\ splits = 0
    /\ ssrc = <<>> /\ sgroups = <<>> /\ souts = <<>> /\ sskipped = 0

\* no return under way
ReturnIdle ==
    /\ rpc = "idle" /\ rdoc = <<>> /\ rcodes = <<>> /\ rdel = {} /\ rbefore = {}

\* no function under study
PureIdle == xin = <<>> /\ xout = [done |-> TRUE, val |-> <<>>]

\* no rewrite under way, no temporary file
NoRewrite == [pc |-> "idle", kind |-> "none", c |-> EmptyCut, final |-> <<>>,
              before |-> [f \in Files |-> <<>>], count |-> 0]
RewriteIdle == rw = NoRewrite /\ tmpf = <<>>

\* stats of a sweep: all_codes, PDF_DIR when it returned, stats["pages_deleted"]
NoSweep == [snap |-> {}, docs |-> [f \in Files |-> <<>>], deleted |-> 0]

\* the fulfilment side: an inventory of at most total pages and a registry
\* holding one of the sets regs
InitFulfil(total, regs) ==
    /\ docs \in Inventories(total)
    /\ docs0 = docs
    /\ bundles = [b \in Files \X (1..MaxQty) |-> <<>>]
    /\ committed \in regs
    /\ consumed = [r \in Runs |-> <<>>]
    /\ swept = NoSweep
    /\ pending = [r \in Runs |-> {}]
    /\ tx = [r \in Runs |-> "active"]
    /\ turn = 0
    /\ li = [r \in Runs |-> 0]
    /\ line = [r \in Runs |-> NoLine]
    /\ cut = [r \in Runs |-> EmptyCut]
    /\ isNew = [r \in Runs |-> FALSE]
    /\ cutParts = [r \in Runs |-> <<>>]
    /\ shortages = [r \in Runs |-> <<>>]
    /\ ppc = "idle" /\ psnap = {} /\ purges = 0
    /\ bundled = {}
    /\ calls = {}

InitCommon(total) ==
    /\ InitFulfil(total, {{}})
    /\ QueueIdle
    /\ SplitIdle
    /\ ReturnIdle
    /\ PureIdle
    /\ RewriteIdle

Init == InitCommon(MaxSharedPages) /\ pc = [r \in Runs |-> "loop"]

\* ------------------------------------------- cut_first_n_pages_unique
Taken(c) == Len(c.head)                              \* unique_taken
\* a quota test that stops one page late
QuotaReached_Late(c) == Taken(c) > c.n
QuotaReached(c) == Taken(c) >= c.n                   \* if unique_taken >= n: break
\* a rewrite that drops the pages behind the last marked page
CutKeep_Upto(c) == {i \in (1..Len(c.snap)) \ c.del : \E k \in c.del : i < k}
CutKeep(c) == (1..Len(c.snap)) \ c.del               \* set(range(total)) - to_delete
CutTail(c) == BuildTail(c.snap, CutKeep(c))
\* a shortage that forgets the pages obtained
CutShortage_Full(c) == IF Taken(c) < c.n THEN c.n ELSE 0
CutShortage(c) == Max(0, c.n - Taken(c))
CutHeadName(c) == <<c.src, Taken(c)>>                \* <stem>__head_<unique_taken>.pdf

\* a cut that rewrites the source only when it took a page
DocsAfterCut_NoRewrite(c) ==
    IF Taken(c) = 0 THEN docs
    ELSE [docs EXCEPT ![c.src] = CutTail(c)]
\* the source file after the rewrite: replaced by the tail, unlinked when the
\* tail is empty, untouched when nothing was marked
DocsAfterCut(c) ==
    IF Taken(c) = 0 /\ c.del = {} THEN docs
    ELSE [docs EXCEPT ![c.src] = CutTail(c)]

BundlesAfterCut(c) ==
    IF Taken(c) = 0 THEN bundles
    ELSE [bundles EXCEPT ![CutHeadName(c)] = c.head]

\* a scan that leaves a page with a registered code in the source
Marked_KeepDup(c, new) ==
    [c EXCEPT !.del = IF new THEN @ \cup {c.idx} ELSE @,
              !.head = IF new THEN Append(@, c.snap[c.idx]) ELSE @]
\* a scan that counts a page with a registered code toward the quota
Marked_CountDup(c, new) ==
    [c EXCEPT !.del = @ \cup {c.idx},
              !.head = Append(@, c.snap[c.idx])]
\* what the run marks after register_code_if_new returned for page idx
Marked(c, new) ==
    [c EXCEPT !.del = @ \cup {c.idx},
              !.head = IF new THEN Append(@, c.snap[c.idx]) ELSE @]

ShortageRec(key, amount) == [article |-> key[1], size |-> key[2], amount |-> amount]

\* the cut returned (c holds its final locals): build_pdf_from_dataframe
\* records the shortage and the part, and goes on to the next row
FinishCut(r, c, key) ==
    /\ docs' = DocsAfterCut(c)
    /\ bundles' = BundlesAfterCut(c)
    /\ bundled' = bundled \cup {c.head[i] : i \in 1..Len(c.head)}
    /\ consumed' = [consumed EXCEPT ![r] = @ \o c.head]
    /\ shortages' = [shortages EXCEPT ![r] =
           IF CutShortage(c) > 0
           THEN Append(@, ShortageRec(key, CutShortage(c))) ELSE @]
    /\ cutParts' = [cutParts EXCEPT ![r] =
           IF Taken(c) > 0 THEN Append(@, CutHeadName(c)) ELSE @]
    /\ line' = [line EXCEPT ![r] = NoLine]
    /\ cut' = [cut EXCEPT ![r] = EmptyCut]
    /\ pc' = [pc EXCEPT ![r] = "loop"]
    /\ turn' = r

\* --------------------------------------------- register_code_if_new
\* INSERT .. ON CONFLICT DO NOTHING RETURNING code: a row is returned iff the
\* code is in no row this transaction can see
RegisterResult(r, c) == c \notin committed /\ c \notin pending[r]
\* a check-then-insert that does not wait for an insert in flight
Blocked_NoWait(r, c) == FALSE
\* the conflicting row belongs to another transaction that is still open
Blocked(r, c) == \E q \in Runs \ {r} : c \in pending[q]

\* ----------------------------------------- build_pdf_from_dataframe
FreshCodes(r, key) ==
    UNION {CodesOf(docs[f]) : f \in Candidates(key)} \ (committed \cup pending[r])

\* for _, row in df.iterrows(): the next row of the order
ReadRow(r, keys, cells) ==
    /\ pc[r] = "loop"
    /\ turn \in {0, r}
    /\ li[r] < MaxLines
    /\ li' = [li EXCEPT ![r] = @ + 1]
    /\ \E key \in keys, cell \in cells :
          line' = [line EXCEPT ![r] =
              [key |-> key, cell |-> cell,
               fresh |-> Cardinality(FreshCodes(r, key))]]
    /\ pc' = [pc EXCEPT ![r] = "row"]
    /\ turn' = r
    /\ UNCHANGED <<docs, bundles, committed, pending, tx, cut, isNew, cutParts,
                   shortages, ppc, psnap, purges, swept, calls, docs0, extVars, bundled, consumed>>

\* a row whose quantity int() rejects or is <= 0: continue
SkipLine(r) ==
    /\ QtyRejected(line[r].cell)
    /\ line' = [line EXCEPT ![r] = NoLine]
    /\ pc' = [pc EXCEPT ![r] = "loop"]
    /\ turn' = r
    /\ UNCHANGED <<docs, bundles, bundled, consumed, shortages, cutParts, cut>>

\* find_pdf_by_article_size returned None: the whole quantity is short
NoCandidate(r) ==
    /\ ~QtyRejected(line[r].cell)
    /\ Candidates(line[r].key) = {}
    /\ shortages' = [shortages EXCEPT ![r] =
           Append(@, ShortageRec(line[r].key, line[r].cell.v))]
    /\ line' = [line EXCEPT ![r] = NoLine]
    /\ pc' = [pc EXCEPT ![r] = "loop"]
    /\ turn' = r
    /\ UNCHANGED <<docs, bundles, bundled, consumed, cutParts, cut>>

\* find_pdf_by_article_size returns the first matching file in the order of
\* PDF_DIR.glob, which is the directory's order: any matching file.  The cut
\* reads the file: reader = PdfReader(str(src))
BeginCut(r) ==
    /\ ~QtyRejected(line[r].cell)
    /\ \E f \in Candidates(line[r].key) :
         cut' = [cut EXCEPT ![r] =
             [src |-> f, n |-> line[r].cell.v, snap |-> docs[f],
              idx |-> NextCoded(docs[f], 1), del |-> {}, head |-> <<>>,
              reg0 |-> committed \cup pending[r]]]
    /\ pc' = [pc EXCEPT ![r] = "scan"]
    /\ turn' = r
    /\ UNCHANGED <<docs, bundles, bundled, consumed, shortages, cutParts, line>>

ProcessRow(r) ==
    /\ pc[r] = "row"
    /\ \/ SkipLine(r)
       \/ NoCandidate(r)
       \/ BeginCut(r)
    /\ UNCHANGED <<committed, pending, tx, li, isNew, ppc, psnap, purges, swept, calls, docs0, extVars>>

\* the scan up to the first page that has a code; if n <= 0: return None, 0
Scan(r) ==
    /\ pc[r] = "scan"
    /\ IF cut[r].n <= 0
       THEN /\ line' = [line EXCEPT ![r] = NoLine]
            /\ cut' = [cut EXCEPT ![r] = EmptyCut]
            /\ pc' = [pc EXCEPT ![r] = "loop"]
            /\ turn' = r
            /\ UNCHANGED <<docs, bundles, bundled, consumed, shortages, cutParts>>
       ELSE IF cut[r].idx = 0
       THEN FinishCut(r, cut[r], line[r].key)
       ELSE /\ pc' = [pc EXCEPT ![r] = "reg"]
            /\ turn' = 0
            /\ UNCHANGED <<docs, bundles, bundled, consumed, shortages, cutParts, line, cut>>
    /\ UNCHANGED <<committed, pending, tx, li, isNew, ppc, psnap, purges, swept, calls, docs0, extVars>>

\* the database executes the INSERT of run r
DbExec(r) ==
    /\ pc[r] = "reg"
    /\ tx[r] = "active"
    /\ LET c == cut[r].snap[cut[r].idx].code
       IN /\ ~Blocked(r, c)
          /\ isNew' = [isNew EXCEPT ![r] = RegisterResult(r, c)]
          /\ calls' = calls \cup {<<r, c, RegisterResult(r, c)>>}
          /\ pending' = [pending EXCEPT ![r] =
                 IF RegisterResult(r, c) THEN @ \cup {c} ELSE @]
    /\ pc' = [pc EXCEPT ![r] = "regDone"]
    /\ UNCHANGED <<docs, bundles, committed, tx, turn, li, line, cut, cutParts,
                   shortages, ppc, psnap, purges, swept, docs0, extVars, bundled, consumed>>

\* the INSERT raises (a deadlock victim, a lost connection, a value too long
\* for String(128), or any statement of a transaction that already failed):
\* the transaction can only be rolled back from here on
DbError(r) ==
    /\ pc[r] = "reg"
    /\ tx' = [tx EXCEPT ![r] = "aborted"]
    /\ pc' = [pc EXCEPT ![r] = "regErr"]
    /\ UNCHANGED <<docs, bundles, committed, pending, turn, li, line, cut, isNew,
                   cutParts, shortages, ppc, psnap, purges, swept, calls, docs0, extVars, bundled, consumed>>

\* register_code_if_new returned: mark the page, go on scanning, and finish
\* the cut when the quota is reached or no page with a code is left
Resume(r) ==
    /\ pc[r] = "regDone"
    /\ turn = 0
    /\ isNew' = [isNew EXCEPT ![r] = FALSE]
    /\ LET c == Marked(cut[r], isNew[r])
           j == NextCoded(c.snap, c.idx + 1)
       IN IF QuotaReached(c) \/ j = 0
          THEN FinishCut(r, c, line[r].key)
          ELSE /\ cut' = [cut EXCEPT ![r] = [c EXCEPT !.idx = j]]
               /\ pc' = [pc EXCEPT ![r] = "reg"]
               /\ turn' = 0
               /\ UNCHANGED <<docs, bundles, bundled, consumed, shortages, cutParts, line>>
    /\ UNCHANGED <<committed, pending, tx, li, ppc, psnap, purges, swept, calls, docs0, extVars>>

\* reading a page or writing a file raises in the cut (a damaged page, a
\* full disk): nothing was written, the transaction of the run is untouched
IoError(r) ==
    /\ pc[r] \in {"scan", "regDone"}
    /\ cut[r].n > 0
    /\ turn = IF pc[r] = "scan" THEN r ELSE 0
    /\ pc' = [pc EXCEPT ![r] = "ioErr"]
    /\ isNew' = [isNew EXCEPT ![r] = FALSE]
    /\ turn' = r
    /\ UNCHANGED <<docs, bundles, committed, pending, tx, li, line, cut,
                   cutParts, shortages, ppc, psnap, purges, swept, calls, docs0,
                   extVars, bundled, consumed>>

\* an except clause that swallows the error without a record of it
ErrorShortage_None(qty) == 0
\* _append_shortage(shortages, article, size, qty) of the except clause
ErrorShortage(qty) == qty

\* the exception leaves cut_first_n_pages_unique before anything is written;
\* except Exception: the whole quantity is short
ResumeErr(r) ==
    /\ pc[r] \in {"regErr", "ioErr"}
    /\ turn = IF pc[r] = "regErr" THEN 0 ELSE r
    /\ shortages' = [shortages EXCEPT ![r] =
           Append(@, ShortageRec(line[r].key, ErrorShortage(line[r].cell.v)))]
    /\ line' = [line EXCEPT ![r] = NoLine]
    /\ cut' = [cut EXCEPT ![r] = EmptyCut]
    /\ pc' = [pc EXCEPT ![r] = "loop"]
    /\ turn' = r
    /\ UNCHANGED <<docs, bundles, committed, pending, tx, li, isNew, cutParts,
                   ppc, psnap, purges, swept, calls, docs0, extVars, bundled, consumed>>

\* the rows are exhausted: await session.commit()
EndLines(r) ==
    /\ pc[r] = "loop"
    /\ turn \in {0, r}
    /\ pc' = [pc EXCEPT ![r] = "commit"]
    /\ turn' = 0
    /\ UNCHANGED <<docs, bundles, committed, pending, tx, li, line, cut, isNew,
                   cutParts, shortages, ppc, psnap, purges, swept, calls, docs0, extVars, bundled, consumed>>

\* what COMMIT makes durable: the rows of the transaction, nothing when the
\* transaction had failed (PostgreSQL answers COMMIT with a rollback)
Durable(r) == IF tx[r] = "active" THEN pending[r] ELSE {}

Commit(r) ==
    /\ pc[r] = "commit"
    /\ committed' = committed \cup Durable(r)
    /\ pending' = [pending EXCEPT ![r] = {}]
    /\ tx' = [tx EXCEPT ![r] = IF @ = "active" THEN "committed" ELSE "rolledback"]
    /\ pc' = [pc EXCEPT ![r] = "merge"]
    /\ UNCHANGED <<docs, bundles, turn, li, line, cut, isNew, cutParts,
                   shortages, ppc, psnap, purges, swept, calls, docs0, extVars, bundled, consumed>>

\* a session that flushes its rows when it is closed
KeptOnClose_Flush(r) == pending[r]
\* async with AsyncSessionLocal() as session: leaving the block without a
\* commit rolls the transaction back, none of its rows stays
KeptOnClose(r) == {}

\* the run is cancelled or killed at one of its awaits (CancelledError is no
\* Exception), or commit() raises: the session is closed without a commit
HardFail(r) ==
    /\ pc[r] \in {"reg", "regDone", "commit"}
    /\ committed' = committed \cup KeptOnClose(r)
    /\ pending' = [pending EXCEPT ![r] = {}]
    /\ tx' = [tx EXCEPT ![r] = "rolledback"]
    /\ isNew' = [isNew EXCEPT ![r] = FALSE]
    /\ cut' = [cut EXCEPT ![r] = EmptyCut]
    /\ line' = [line EXCEPT ![r] = NoLine]
    /\ pc' = [pc EXCEPT ![r] = "failed"]
    /\ UNCHANGED <<docs, bundles, turn, li, cutParts, shortages,
                   ppc, psnap, purges, swept, calls, docs0, extVars, bundled, consumed>>

\* merge_pdfs: the pages of the parts, by path, skipping a missing file
MergedPages(parts) ==
    LET F[i \in 0..Len(parts)] ==
            IF i = 0 THEN <<>> ELSE F[i - 1] \o bundles[parts[i]]
    IN F[Len(parts)]

\* after the commit: merge the parts into PDF_DIR/result.pdf, unlink them
Merge(r) ==
    /\ pc[r] = "merge"
    /\ turn = 0
    /\ IF cutParts[r] = <<>>
       THEN /\ pc' = [pc EXCEPT ![r] = "done"]
            /\ UNCHANGED <<docs, bundles>>
       ELSE /\ docs' = [docs EXCEPT !["result"] = MergedPages(cutParts[r])]
            /\ bundles' = [b \in DOMAIN bundles |->
                   IF \E i \in 1..Len(cutParts[r]) : cutParts[r][i] = b
                   THEN <<>> ELSE bundles[b]]
            /\ pc' = [pc EXCEPT ![r] = "send"]
    /\ UNCHANGED <<committed, pending, tx, turn, li, line, cut, isNew, cutParts,
                   shortages, ppc, psnap, purges, swept, calls, docs0, extVars, bundled, consumed>>

\* process_orders_job: the result was sent; Path(result_path).unlink
Deliver(r) ==
    /\ pc[r] = "send"
    /\ turn = 0
    /\ docs' = [docs EXCEPT !["result"] = <<>>]
    /\ pc' = [pc EXCEPT ![r] = "done"]
    /\ UNCHANGED <<bundles, committed, pending, tx, turn, li, line, cut, isNew,
                   cutParts, shortages, ppc, psnap, purges, swept, calls, docs0, extVars, bundled, consumed>>

\* ------------------------------------------------ purge_known_codes_in_dir
\* all_codes = await get_all_codes(session): the durable rows
PurgeStart ==
    /\ ppc = "idle"
    /\ purges < MaxPurges
    /\ psnap' = committed
    /\ ppc' = "sweep"
    /\ UNCHANGED <<docs, bundles, committed, pending, tx, turn, pc, li, line,
                   cut, isNew, cutParts, shortages, purges, swept, calls, docs0, extVars, bundled, consumed>>

\* stats["pages_scanned"] of a sweep over the directory dd
TotalPages(dd) == Len(dd["d1"]) + Len(dd["d2"]) + Len(dd["result"])

\* a sweep that deletes nothing
PurgeKeep_All(pages, known) == 1..Len(pages)
\* a sweep that also drops the first page of every file
PurgeKeep_Greedy(pages, known) ==
    {i \in 2..Len(pages) : ~(HasCode(pages[i]) /\ pages[i].code \in known)}
\* one file of the sweep: keep the pages whose code is not in all_codes
PurgeKeep(pages, known) ==
    {i \in 1..Len(pages) : ~(HasCode(pages[i]) /\ pages[i].code \in known)}
PurgeFile(pages, known) == BuildTail(pages, PurgeKeep(pages, known))

PurgeSweep ==
    /\ ppc = "sweep"
    /\ turn = 0
    /\ docs' = [f \in Files |-> PurgeFile(docs[f], psnap)]
    /\ purges' = purges + 1
    /\ swept' = [snap |-> psnap, docs |-> docs',
                  deleted |-> TotalPages(docs) - TotalPages(docs')]
    /\ psnap' = {}
    /\ ppc' = "idle"
    /\ UNCHANGED <<bundles, committed, pending, tx, turn, pc, li, line, cut,
                   isNew, cutParts, shortages, calls, docs0, extVars, bundled, consumed>>

\* -------------------------------------------------------- bot/job_queue.py
\* a Job object is named by its position in jobs; 0 in the queue is the None
\* that stop() puts; a worker task is "off" (not created), "wait" (in
\* queue.get), "busy" (in the handler), "exited" (left the loop) or "dead"
fulfilVars == <<docs, bundles, committed, pending, tx, turn, pc, li, line, cut,
                isNew, cutParts, shortages, ppc, psnap, purges, calls, docs0,
                bundled, consumed, swept>>
otherThanQueue == <<fulfilVars, splitVars, returnVars, pureVars, rwVars>>

Terminal == {"done", "failed", "cancelled"}
NoError == "none"

\* the queue starts as _QueueState() leaves it; the handler may be configured
InitQueue ==
    /\ InitFulfil(0, {{}})
    /\ pc = [r \in Runs |-> "done"]
    /\ QueueIdle
    /\ SplitIdle
    /\ ReturnIdle
    /\ PureIdle
    /\ RewriteIdle

\* configure(on_job, concurrency=2)
Configure ==
    /\ ~onJob
    /\ onJob' = TRUE
    /\ UNCHANGED <<jqueue, jobs, wjob, wstate, jseq, jstarts, running, stopst,
                   qlast, otherThanQueue>>

\* start(): one _worker task per unit of concurrency
Start ==
    /\ ~running
    /\ running' = TRUE
    /\ wstate' = [w \in Runs |-> "wait"]
    /\ qlast' = "start"
    /\ UNCHANGED <<jqueue, jobs, wjob, jseq, onJob, jstarts, stopst, otherThanQueue>>

\* start() on a running queue: if _state.running: return
StartAgain ==
    /\ running
    /\ qlast' = "startNoop"
    /\ UNCHANGED <<jqueue, jobs, wjob, wstate, jseq, onJob, jstarts, running,
                   stopst, otherThanQueue>>

\* submit(payload): jid = next(_state.seq); the job is stored and queued
Submit ==
    /\ Len(jobs) < MaxJobs
    /\ jobs' = Append(jobs, [id |-> jseq, status |-> "queued", error |-> NoError])
    /\ jqueue' = Append(jqueue, Len(jobs) + 1)
    /\ jstarts' = Append(jstarts, 0)
    /\ jseq' = jseq + 1
    /\ UNCHANGED <<wjob, wstate, onJob, running, stopst, qlast, otherThanQueue>>

\* a queue that hands out its newest entry
QueueGet_Lifo(q) == q[Len(q)]
\* asyncio.Queue.get: the oldest entry
QueueGet(q) == Head(q)

\* job = await _state.queue.get() and the lines up to await on_job(..)
WorkerGet(w) ==
    /\ wstate[w] = "wait"
    /\ jqueue # <<>>
    /\ jqueue' = Tail(jqueue)
    /\ LET j == QueueGet(jqueue)
       IN IF j = 0
          THEN /\ wstate' = [wstate EXCEPT ![w] = "exited"]
               /\ UNCHANGED <<jobs, wjob, jstarts>>
          ELSE IF ~onJob
          THEN /\ jobs' = [jobs EXCEPT ![j].status = "failed",
                                       ![j].error = "No on_job handler configured"]
               /\ UNCHANGED <<wstate, wjob, jstarts>>
          ELSE /\ jobs' = [jobs EXCEPT ![j].status = "running"]
               /\ wjob' = [wjob EXCEPT ![w] = j]
               /\ wstate' = [wstate EXCEPT ![w] = "busy"]
               /\ jstarts' = [jstarts EXCEPT ![j] = @ + 1]
    /\ UNCHANGED <<jseq, onJob, running, stopst, qlast, otherThanQueue>>

\* the handler returned: job.status = "done"
WorkerDone(w) ==
    /\ wstate[w] = "busy"
    /\ jobs' = [jobs EXCEPT ![wjob[w]].status = "done"]
    /\ wjob' = [wjob EXCEPT ![w] = 0]
    /\ wstate' = [wstate EXCEPT ![w] = "wait"]
    /\ UNCHANGED <<jqueue, jseq, onJob, jstarts, running, stopst, qlast, otherThanQueue>>

\* a worker that ends when its handler raises
AfterRaise_Stop == "dead"
\* except Exception .. finally: task_done(): the while loop goes on
AfterRaise == "wait"

\* the handler raised an Exception: job.status = "failed", job.error = str(e)
WorkerRaise(w) ==
    /\ wstate[w] = "busy"
    /\ jobs' = [jobs EXCEPT ![wjob[w]].status = "failed", ![wjob[w]].error = "exc"]
    /\ wjob' = [wjob EXCEPT ![w] = 0]
    /\ wstate' = [wstate EXCEPT ![w] = AfterRaise]
    /\ UNCHANGED <<jqueue, jseq, onJob, jstarts, running, stopst, qlast, otherThanQueue>>

\* the worker task is cancelled at one of its awaits: in the handler the job
\* becomes "cancelled" and the CancelledError is raised again
WorkerCancel(w) ==
    /\ wstate[w] \in {"wait", "busy"}
    /\ jobs' = IF wstate[w] = "busy"
               THEN [jobs EXCEPT ![wjob[w]].status = "cancelled"] ELSE jobs
    /\ wjob' = [wjob EXCEPT ![w] = 0]
    /\ wstate' = [wstate EXCEPT ![w] = "dead"]
    /\ UNCHANGED <<jqueue, jseq, onJob, jstarts, running, stopst, qlast, otherThanQueue>>

\* stop() up to await _state.queue.join(): one None per worker is put into
\* the queue (the queue has no size limit, so no put waits)
Stop ==
    /\ running
    /\ stopst.pc = "idle"
    /\ jqueue' = jqueue \o [w \in Runs |-> 0]
    /\ stopst' = [pc |-> "join", njobs |-> Len(jobs)]
    /\ qlast' = "stop"
    /\ UNCHANGED <<jobs, wjob, wstate, jseq, onJob, jstarts, running, otherThanQueue>>

\* the count queue.join() waits for: items put and not yet marked task_done
Unfinished == Len(jqueue) + Cardinality({w \in Runs : wstate[w] = "busy"})

\* await _state.queue.join() returns
JoinReturns == Unfinished = 0

\* stop() after the join: the worker tasks are cancelled and forgotten
StopReturn ==
    /\ stopst.pc = "join"
    /\ JoinReturns
    /\ wstate' = [w \in Runs |-> "off"]
    /\ wjob' = [w \in Runs |-> 0]
    /\ jobs' = [j \in 1..Len(jobs) |->
                   IF \E w \in Runs : wstate[w] = "busy" /\ wjob[w] = j
                   THEN [jobs[j] EXCEPT !.status = "cancelled"] ELSE jobs[j]]
    /\ running' = FALSE
    /\ stopst' = [pc |-> "idle", njobs |-> 0]
    /\ qlast' = "stopReturn"
    /\ UNCHANGED <<jqueue, jseq, onJob, jstarts, otherThanQueue>>

\* stop() on a queue that is not running: if not _state.running: return
StopAgain ==
    /\ ~running
    /\ qlast' = "stopNoop"
    /\ UNCHANGED <<jqueue, jobs, wjob, wstate, jseq, onJob, jstarts, running,
                   stopst, otherThanQueue>>

NextQueue ==
    \/ Configure
    \/ Start
    \/ Submit
    \/ \E w \in Runs : WorkerGet(w)
    \/ \E w \in Runs : WorkerDone(w)
    \/ \E w \in Runs : WorkerRaise(w)
    \/ \E w \in Runs : WorkerCancel(w)
    \/ Stop

SpecQueue == InitQueue /\ [][NextQueue]_vars

\* the event loop runs every task that can run, and a handler ends
SpecQueueFair ==
    /\ SpecQueue
    /\ \A w \in Runs : WF_vars(WorkerGet(w))
    /\ \A w \in Runs : WF_vars(WorkerDone(w) \/ WorkerRaise(w))

\* the queue from start to stop and on: no task is cancelled from outside
NextStop ==
    \/ Configure
    \/ Start
    \/ StartAgain
    \/ Submit
    \/ \E w \in Runs : WorkerGet(w)
    \/ \E w \in Runs : WorkerDone(w)
    \/ \E w \in Runs : WorkerRaise(w)
    \/ Stop
    \/ StopReturn
    \/ StopAgain

SpecStop == InitQueue /\ [][NextStop]_vars

\* every handler ends, and every task that can run is run
SpecStopFair ==
    /\ SpecStop
    /\ \A w \in Runs : WF_vars(WorkerGet(w))
    /\ \A w \in Runs : WF_vars(WorkerDone(w) \/ WorkerRaise(w))
    /\ WF_vars(StopReturn)

\* ------------------------------------------------- core/pdf_splitter.py
otherThanSplit == <<fulfilVars, queueVars, returnVars, pureVars, rwVars>>

\* if not (art and size and color): the page is skipped
Resolved(m) == m[1] # NoMeta /\ m[2] # NoMeta /\ m[3] # NoMeta

\* groups: a dict from key to writer, in the order the keys first appear
GroupsOf(pages) ==
    LET F[i \in 0..Len(pages)] ==
            IF i = 0 THEN <<>>
            ELSE LET g == F[i - 1]
                     p == pages[i]
                     at == {k \in 1..Len(g) : g[k].key = p.meta}
                 IN IF ~Resolved(p.meta) THEN g
                    ELSE IF at = {}
                    THEN Append(g, [key |-> p.meta, pages |-> <<p>>])
                    ELSE [g EXCEPT ![CHOOSE k \in at : TRUE].pages = Append(@, p)]
    IN F[Len(pages)]

\* skipped_without_meta
SkippedOf(pages) == Cardinality({i \in 1..Len(pages) : ~Resolved(pages[i].meta)})

\* the documents a user uploads for splitting: each page yields a key or
\* misses a field; u tells the uploads apart
SplitSources(u) ==
    {[i \in 1..Len(ms) |-> [up |-> u, pos |-> i, meta |-> ms[i], code |-> NoCode]] :
        ms \in UNION {[1..n -> PageMetas] : n \in 1..MaxSplitPages}}

\* split_pdf_by_meta up to the end of the page loop: reader, groups, skipped
SplitStart(src) ==
    /\ spc = "idle"
    /\ splits < MaxSplits
    /\ ssrc' = src
    /\ sgroups' = GroupsOf(src)
    /\ sskipped' = SkippedOf(src)
    /\ souts' = <<>>
    /\ spc' = "write"
    /\ UNCHANGED <<outs, now, splits>>

\* one turn of the loop over groups.items(): the file name is built from the
\* key, the page count and the second of the clock; os.replace(tmp, out_path)
SplitWrite ==
    /\ spc = "write"
    /\ Len(souts) < Len(sgroups)
    /\ LET g == sgroups[Len(souts) + 1]
           nm == OutName(g.key, Len(g.pages), now)
       IN /\ outs' = [outs EXCEPT ![nm] = g.pages]
          /\ souts' = Append(souts, [path |-> nm, pages |-> Len(g.pages), key |-> g.key])
    /\ UNCHANGED <<now, spc, ssrc, sgroups, sskipped, splits, otherThanSplit>>

\* return {"outputs": .., "skipped_without_meta": .., "total_pages": ..}
SplitEnd ==
    /\ spc = "write"
    /\ Len(souts) = Len(sgroups)
    /\ spc' = "idle"
    /\ splits' = splits + 1
    /\ UNCHANGED <<outs, now, ssrc, sgroups, souts, sskipped, otherThanSplit>>

\* datetime.now() reaches the next second
Tick ==
    /\ now < MaxClock
    /\ now' = now + 1
    /\ UNCHANGED <<outs, spc, ssrc, sgroups, souts, sskipped, splits, otherThanSplit>>

\* the handler of an uploaded PDF: split_pdf_by_meta(src_tmp_path)
SplitUpload ==
    /\ \E src \in SplitSources(splits + 1) : SplitStart(src)
    /\ UNCHANGED otherThanSplit

InitSplit ==
    /\ InitFulfil(0, {{}})
    /\ pc = [r \in Runs |-> "done"]
    /\ QueueIdle
    /\ SplitIdle
    /\ ReturnIdle
    /\ PureIdle
    /\ RewriteIdle

NextSplit ==
    \/ SplitUpload
    \/ SplitWrite
    \/ SplitEnd
    \/ Tick

SpecSplit == InitSplit /\ [][NextSplit]_vars

\* ---------------------------------------------------- core/return_pdf.py
otherThanReturn == <<docs, bundles, pending, tx, turn, pc, li, line, cut, isNew,
                     cutParts, shortages, ppc, psnap, purges, calls, docs0,
                     bundled, consumed, swept, queueVars, pureVars, rwVars>>

\* the documents a user returns: every page carries one key and a code or none
ReturnDocs ==
    {[i \in 1..Len(cs) |->
         [up |-> 0, pos |-> i, meta |-> <<"a/b", "M", "red">>, code |-> cs[i]]] :
        cs \in UNION {[1..n -> Codes \cup {NoCode}] : n \in 1..MaxReturnPages}}

\* _collect_all_codes_sync: the codes of the pages, each once, in page order
UniqCodes(pages) ==
    LET F[i \in 0..Len(pages)] ==
            IF i = 0 THEN <<>>
            ELSE IF HasCode(pages[i])
                    /\ \A k \in 1..Len(F[i - 1]) : F[i - 1][k] # pages[i].code
                 THEN Append(F[i - 1], pages[i].code)
                 ELSE F[i - 1]
    IN F[Len(pages)]

\* a lookup that finds no row
RowVisible_Never(c) == FALSE
\* row = await session.get(PrintedCode, code): the committed row, if any
RowVisible(c) == c \in committed

\* return_pdf up to the loop over the codes
ReturnStart ==
    /\ rpc = "idle"
    /\ \E d \in ReturnDocs :
          /\ rdoc' = d
          /\ rcodes' = UniqCodes(d)
          /\ rpc' = IF UniqCodes(d) = <<>> THEN "split" ELSE "lookup"
    /\ rdel' = {}
    /\ rbefore' = committed
    /\ UNCHANGED <<committed, splitVars, otherThanReturn>>

\* one turn of the loop: session.get, and session.delete when the row exists
ReturnLookup ==
    /\ rpc = "lookup"
    /\ LET c == Head(rcodes)
           del == IF RowVisible(c) THEN rdel \cup {c} ELSE rdel
       IN /\ rdel' = del
          /\ rcodes' = Tail(rcodes)
          /\ rpc' = IF Tail(rcodes) # <<>> THEN "lookup"
                    ELSE IF del # {} THEN "commit" ELSE "split"
    /\ UNCHANGED <<rdoc, rbefore, committed, splitVars, otherThanReturn>>

\* if deleted_codes: await session.commit()
ReturnCommit ==
    /\ rpc = "commit"
    /\ committed' = committed \ rdel
    /\ rpc' = "split"
    /\ UNCHANGED <<rdoc, rcodes, rdel, rbefore, splitVars, otherThanReturn>>

\* report = await asyncio.to_thread(split_pdf_by_meta, src)
ReturnSplit ==
    /\ rpc = "split"
    /\ SplitStart(rdoc)
    /\ rpc' = "splitting"
    /\ UNCHANGED <<rdoc, rcodes, rdel, rbefore, committed, otherThanReturn>>

\* the split returned: return_pdf returns its summary
ReturnEnd ==
    /\ rpc = "splitting"
    /\ spc = "idle"
    /\ rpc' = "done"
    /\ UNCHANGED <<rdoc, rcodes, rdel, rbefore, committed, splitVars, otherThanReturn>>

\* the registry holds the codes of earlier runs; one run and one return
InitReturn ==
    /\ InitFulfil(MaxSharedPages, SUBSET Codes)
    /\ pc = [r \in Runs |-> IF r = 1 THEN "loop" ELSE "done"]
    /\ QueueIdle
    /\ SplitIdle
    /\ ReturnIdle
    /\ PureIdle
    /\ RewriteIdle

NextReturn ==
    \/ ReadRow(1, {<<PageArticle, PageSize>>}, GoodCells)
    \/ ProcessRow(1)
    \/ Scan(1)
    \/ DbExec(1)
    \/ Resume(1)
    \/ EndLines(1)
    \/ Commit(1)
    \/ Merge(1)
    \/ Deliver(1)
    \/ ReturnStart
    \/ ReturnLookup
    \/ ReturnCommit
    \/ ReturnSplit
    \/ SplitWrite
    \/ SplitEnd
    \/ ReturnEnd

SpecReturn == InitReturn /\ [][NextReturn]_vars

\* ------------------------------------- core/pdf_rw.py: _extract_code_from_text
\* A text is the sequence of its lines, a line the sequence of its
\* characters.  Space is the only whitespace of the texts modelled, Cyr (one
\* Cyrillic letter) the only character outside [!-~]; no text holds a
\* parenthesis.
GtinLen == 14          \* \d{14}
SerialMin == 4         \* [!-~]{4,}
MaxLookahead == 5      \* max_lookahead = 5
MaxFollow == 6         \* lines after the header line
Space == " "
Cyr == "cyr"
IsDigit(ch) == ch \in {"0", "1", "2", "3", "4", "5", "6", "7", "8", "9"}
IsPrintable(ch) == ch \notin {Space, Cyr}              \* [!-~]

\* re.sub(r"\s+", "", s)
StripWs(s) == SelectSeq(s, LAMBDA ch : ch # Space)
\* \s* from position i: the first position that holds no whitespace
SkipWs(s, i) ==
    LET S == {k \in i..Len(s) : s[k] # Space}
    IN IF S = {} THEN Len(s) + 1 ELSE CHOOSE k \in S : \A m \in S : k <= m
\* [!-~]* from position i: the length of the run
RunLen(s, i) ==
    LET S == {k \in i..Len(s) : ~IsPrintable(s[k])}
        stop == IF S = {} THEN Len(s) + 1 ELSE CHOOSE k \in S : \A m \in S : k <= m
    IN IF i > Len(s) THEN 0 ELSE stop - i
Run(s, i) == SubSeq(s, i, i + RunLen(s, i) - 1)

\* RE_GS1_NOPAREN_HEADLINE.match(ln) on a stripped line: ^\s*01\s*\d{14}\s*21\s*$
IsHeadline(ln) ==
    /\ Len(ln) >= 2 /\ ln[1] = "0" /\ ln[2] = "1"
    /\ LET a == SkipWs(ln, 3)
           b == SkipWs(ln, a + GtinLen)
       IN /\ a + GtinLen - 1 <= Len(ln)
          /\ \A k \in a..(a + GtinLen - 1) : IsDigit(ln[k])
          /\ b + 1 = Len(ln)
          /\ ln[b] = "2" /\ ln[b + 1] = "1"

\* re.search(r"(?:\(\s*21\s*\)|21)\s*([!-~]{4,})", ln): the start of group 1 of
\* the leftmost match, 0 without a match (the line holds no parenthesis)
SameLineAt(ln) ==
    LET S == {p \in 1..(Len(ln) - 1) :
                 /\ ln[p] = "2" /\ ln[p + 1] = "1"
                 /\ RunLen(ln, SkipWs(ln, p + 2)) >= SerialMin}
    IN IF S = {} THEN 0
       ELSE SkipWs(ln, (CHOOSE p \in S : \A m \in S : p <= m) + 2)

\* RE_ASCII_PREFIX_LINE.match(line): ^\s*([!-~]{4,})
HasPrefix(l) == RunLen(l, SkipWs(l, 1)) >= SerialMin
Prefix(l) == Run(l, SkipWs(l, 1))

\* the loop over the lines from line i on; <<>> stands for None
RECURSIVE ExtractFrom(_, _)
ExtractFrom(lines, i) ==
    IF i > Len(lines) THEN <<>>
    ELSE IF ~IsHeadline(lines[i]) THEN ExtractFrom(lines, i + 1)
    ELSE LET ln == lines[i]
             q == SameLineAt(ln)
             W == {j \in (i + 1)..Min2(i + MaxLookahead, Len(lines)) : HasPrefix(lines[j])}
         IN IF q # 0
            THEN StripWs(SubSeq(ln, 1, q - 1)) \o StripWs(Run(ln, q))
            ELSE IF W # {}
            THEN StripWs(ln) \o StripWs(Prefix(lines[CHOOSE j \in W : \A m \in W : j <= m]))
            ELSE ExtractFrom(lines, i + 1)

\* _extract_code_from_text on the lines of a text without a parenthesis:
\* RE_GS1_PAREN_ONELINE finds nothing, the loop over the lines decides
ExtractCodeFromText(lines) == ExtractFrom(lines, 1)

\* identifiers of 14 digits, header lines with and without spaces
Rep(ch, n) == [i \in 1..n |-> ch]
Gtins == {<<"0", "4", "6">> \o Rep("0", 10) \o <<"7">>,
          <<"0", "4", "6", "0", "2", "1", "1", "2", "3", "4", "5", "6", "7", "8">>,
          <<"0", "4", "6">> \o Rep("0", 9) \o <<"2", "1">>}
HeaderLines ==
    {<<"0", "1">> \o g \o <<"2", "1">> : g \in Gtins}
      \cup {<<"0", "1", Space>> \o g \o <<Space, "2", "1">> : g \in Gtins}
\* lines around a header: Cyrillic words, a short token, two serials
OtherLines == {<<Cyr, Cyr, Cyr, Cyr>>, <<"a", "b", "c">>, <<"a", "b", "c", "d">>,
               <<"w", "x", "y", "z", "!", Space, Cyr, Cyr>>}
PageTexts ==
    {pre \o <<h>> \o post :
        pre \in {<<>>, <<<<Cyr, Cyr, Cyr, Cyr>>>>},
        h \in HeaderLines,
        post \in UNION {[1..n -> OtherLines] : n \in 0..MaxFollow}}

InitExtract ==
    /\ InitFulfil(0, {{}})
    /\ pc = [r \in Runs |-> "done"]
    /\ QueueIdle /\ SplitIdle /\ ReturnIdle /\ RewriteIdle
    /\ xin \in PageTexts
    /\ xout = [done |-> FALSE, val |-> <<>>]

\* code = _extract_code_from_text(txt)
ExtractCode ==
    /\ ~xout.done
    /\ xout' = [done |-> TRUE, val |-> ExtractCodeFromText(xin)]
    /\ UNCHANGED <<xin, fulfilVars, queueVars, splitVars, returnVars, rwVars>>

SpecExtract == InitExtract /\ [][ExtractCode]_vars

\* ----------------------------------- core/pdf_rw.py: find_pdf_by_article_size
\* The test one file of PDF_DIR passes to be returned.  The text of the file
\* is a sequence of characters: letters in both cases, a digit, a dash, and
\* Space for any whitespace (blank or line break).
MaxTextLen == 5        \* characters of the text of a document
Lower(ch) == CASE ch = "A" -> "a" [] ch = "L" -> "l" [] ch = "X" -> "x" [] OTHER -> ch
LowerSeq(s) == [i \in 1..Len(s) |-> Lower(s[i])]
\* _strip_all_ws: re.sub(r"\s+", "", s).lower()
StripAllWs(s) == LowerSeq(SelectSeq(s, LAMBDA ch : ch # Space))
\* str(size).strip()
Strip(s) ==
    LET S == {k \in 1..Len(s) : s[k] # Space}
    IN IF S = {} THEN <<>>
       ELSE SubSeq(s, CHOOSE k \in S : \A m \in S : k <= m,
                      CHOOSE k \in S : \A m \in S : k >= m)
\* \w
IsWord(ch) == ch \notin {Space, "-"}
WordAt(t, i) == i >= 1 /\ i <= Len(t) /\ IsWord(t[i])
\* \b between the characters i and i + 1 of t
WordBoundary(t, i) == WordAt(t, i) # WordAt(t, i + 1)
\* a_no_ws in text_no_ws
Contains(hay, needle) ==
    \E p \in 1..(Len(hay) - Len(needle) + 1) :
        \A k \in 1..Len(needle) : hay[p + k - 1] = needle[k]
\* size_regex.search(t) with size_regex = (?:razmer:\s*)?<s>\b, IGNORECASE:
\* the optional label adds no match, the size is followed by a \b
SizeSearch(s, t) ==
    \E p \in 1..(Len(t) - Len(s) + 1) :
        /\ \A k \in 1..Len(s) : Lower(t[p + k - 1]) = Lower(s[k])
        /\ WordBoundary(t, p + Len(s) - 1)
\* the file is returned as the document of (article, size)
FindSelects(article, size, text) ==
    /\ StripAllWs(article) # <<>>
    /\ Strip(size) # <<>>
    /\ Contains(StripAllWs(text), StripAllWs(article))
    /\ \/ SizeSearch(Strip(size), text)
       \/ SizeSearch(Strip(size), StripAllWs(text))

TextChars == {"a", "L", "X", "5", "-", Space}
DocTexts == UNION {[1..n -> TextChars] : n \in 0..MaxTextLen}
OrderArticles == {<<"A">>, <<"A", "a">>, <<"a", Space, "a">>}
OrderSizes == {<<"L">>, <<"l">>, <<"X", "L">>}

InitFind ==
    /\ InitFulfil(0, {{}})
    /\ pc = [r \in Runs |-> "done"]
    /\ QueueIdle /\ SplitIdle /\ ReturnIdle /\ RewriteIdle
    /\ xin \in [article : OrderArticles, size : OrderSizes, text : DocTexts]
    /\ xout = [done |-> FALSE, val |-> FALSE]

\* one turn of the loop over PDF_DIR.glob("*.pdf")
FindPdf ==
    /\ ~xout.done
    /\ xout' = [done |-> TRUE, val |-> FindSelects(xin.article, xin.size, xin.text)]
    /\ UNCHANGED <<xin, fulfilVars, queueVars, splitVars, returnVars, rwVars>>

SpecFind == InitFind /\ [][FindPdf]_vars

\* ------------------------ the rewrite of a document, one file operation a step
\* The tail of cut_first_n_pages_unique (from "if unique_taken == 0" on) and
\* the tail of one turn of the purge loop, with the writes of _write_pdf taken
\* apart: open(out_path, "wb") creates or truncates the file, writer.write(f)
\* fills it, and either may raise.
MaxRewrites == 2       \* rewrites in one behaviour
otherThanRewrite == <<committed, pending, tx, turn, pc, li, line, cut, isNew,
                      cutParts, shortages, ppc, psnap, purges, calls, docs0,
                      bundled, consumed, swept, queueVars, splitVars,
                      returnVars, pureVars>>

\* a rewrite that writes the tail over the source file itself
TailPath_InPlace(src) == src
\* tail_tmp = tmp_dir / f"{src.stem}__tail_tmp.pdf" (__purged_tmp in the sweep)
TailPath(src) == "tmp"

\* the pages of the file at a path, and the directory after a write to it
FileAt(path) == IF path = "tmp" THEN tmpf ELSE docs[path]
WriteFile(path, pages) ==
    IF path = "tmp"
    THEN tmpf' = pages /\ docs' = docs
    ELSE docs' = [docs EXCEPT ![path] = pages] /\ tmpf' = tmpf

\* the locals a scan can end with: pages marked, and of them the pages taken
CodedAt(pages) == {i \in 1..Len(pages) : HasCode(pages[i])}
ScanEnds(d) ==
    {[EmptyCut EXCEPT !.src = d, !.n = Max(1, Cardinality(N)), !.snap = docs[d],
                      !.del = D, !.head = BuildTail(docs[d], N)] :
        D \in SUBSET CodedAt(docs[d]), N \in SUBSET CodedAt(docs[d])}

\* the scan of a cut has ended: if unique_taken == 0 .. / head_out = ..
RewriteCut ==
    /\ rw.pc \in {"idle", "done", "failed"}
    /\ rw.count < MaxRewrites
    /\ \E d \in Docs : \E c \in ScanEnds(d) :
          /\ docs[d] # <<>>
          /\ \A i \in 1..Len(c.head) : \E k \in c.del : c.snap[k] = c.head[i]
          /\ rw' = [pc |-> IF Taken(c) > 0 THEN "head"
                           ELSE IF c.del # {} THEN "tail" ELSE "done",
                    kind |-> "cut", c |-> c, final |-> CutTail(c),
                    before |-> docs, count |-> rw.count + 1]
    /\ UNCHANGED <<docs, bundles, tmpf, otherThanRewrite>>

\* the page loop of the sweep has ended for one file with deleted_here > 0
RewritePurge ==
    /\ rw.pc \in {"idle", "done", "failed"}
    /\ rw.count < MaxRewrites
    /\ \E d \in Docs, known \in SUBSET Codes :
          /\ docs[d] # <<>>
          /\ PurgeKeep(docs[d], known) # 1..Len(docs[d])
          /\ rw' = [pc |-> "tail", kind |-> "purge",
                    c |-> [EmptyCut EXCEPT !.src = d, !.snap = docs[d],
                              !.del = (1..Len(docs[d])) \ PurgeKeep(docs[d], known)],
                    final |-> PurgeFile(docs[d], known),
                    before |-> docs, count |-> rw.count + 1]
    /\ UNCHANGED <<docs, bundles, tmpf, otherThanRewrite>>

\* _write_pdf(head_writer, head_out)
WriteHead ==
    /\ rw.pc = "head"
    /\ bundles' = [bundles EXCEPT ![CutHeadName(rw.c)] = rw.c.head]
    /\ rw' = [rw EXCEPT !.pc = "tail"]
    /\ UNCHANGED <<docs, tmpf, otherThanRewrite>>

\* no page is kept: src.unlink()
Unlink ==
    /\ rw.pc = "tail"
    /\ rw.final = <<>>
    /\ docs' = [docs EXCEPT ![rw.c.src] = <<>>]
    /\ rw' = [rw EXCEPT !.pc = "done"]
    /\ UNCHANGED <<bundles, tmpf, otherThanRewrite>>

\* _write_pdf(tail_writer, tail_tmp): open(out_path, "wb")
OpenTail ==
    /\ rw.pc = "tail"
    /\ rw.final # <<>>
    /\ WriteFile(TailPath(rw.c.src), <<>>)
    /\ rw' = [rw EXCEPT !.pc = "write"]
    /\ UNCHANGED <<bundles, otherThanRewrite>>

\* writer.write(f): the next page reaches the file
WritePage ==
    /\ rw.pc = "write"
    /\ LET have == FileAt(TailPath(rw.c.src))
       IN /\ Len(have) < Len(rw.final)
          /\ WriteFile(TailPath(rw.c.src), Append(have, rw.final[Len(have) + 1]))
    /\ UNCHANGED <<rw, bundles, otherThanRewrite>>

\* the file is written and closed: _replace_file(tail_tmp, src)
Swap ==
    /\ rw.pc = "write"
    /\ Len(FileAt(TailPath(rw.c.src))) = Len(rw.final)
    /\ docs' = [docs EXCEPT ![rw.c.src] = FileAt(TailPath(rw.c.src))]
    /\ tmpf' = IF TailPath(rw.c.src) = "tmp" THEN <<>> ELSE tmpf
    /\ rw' = [rw EXCEPT !.pc = "done"]
    /\ UNCHANGED <<bundles, otherThanRewrite>>

\* a write raises (no space left, no permission): the cut raises to
\* build_pdf_from_dataframe, the sweep notes the error and takes the next file
WriteFails ==
    /\ \/ rw.pc \in {"head", "write"}
       \/ rw.pc = "tail" /\ rw.final # <<>>
    /\ rw' = [rw EXCEPT !.pc = "failed"]
    /\ UNCHANGED <<docs, bundles, tmpf, otherThanRewrite>>

InitRewrite ==
    /\ InitFulfil(MaxPages, {{}})
    /\ pc = [r \in Runs |-> "done"]
    /\ QueueIdle /\ SplitIdle /\ ReturnIdle /\ PureIdle /\ RewriteIdle

NextRewrite ==
    \/ RewriteCut
    \/ RewritePurge
    \/ WriteHead
    \/ Unlink
    \/ OpenTail
    \/ WritePage
    \/ Swap
    \/ WriteFails

SpecRewrite == InitRewrite /\ [][NextRewrite]_vars

\* ------------------------------------------------------------ specifications
\* two runs side by side, failures of the database and of the process
Next ==
    \/ \E r \in Runs : ReadRow(r, {<<PageArticle, PageSize>>}, GoodCells)
    \/ \E r \in Runs : ProcessRow(r)
    \/ \E r \in Runs : Scan(r)
    \/ \E r \in Runs : DbExec(r)
    \/ \E r \in Runs : DbError(r)
    \/ \E r \in Runs : Resume(r)
    \/ \E r \in Runs : ResumeErr(r)
    \/ \E r \in Runs : EndLines(r)
    \/ \E r \in Runs : Commit(r)
    \/ \E r \in Runs : HardFail(r)
    \/ \E r \in Runs : Merge(r)
    \/ \E r \in Runs : Deliver(r)

Spec == Init /\ [][Next]_vars

\* one run alone, no failure of the database or of the process
InitSeq == InitCommon(MaxPages) /\ pc = [r \in Runs |-> IF r = 1 THEN "loop" ELSE "done"]
NextSeq ==
    \/ ReadRow(1, Keys, Cells)
    \/ ProcessRow(1)
    \/ Scan(1)
    \/ DbExec(1)
    \/ Resume(1)
    \/ EndLines(1)
    \/ Commit(1)
    \/ Merge(1)
    \/ Deliver(1)

SpecSeq == InitSeq /\ [][NextSeq]_vars

\* one run whose cuts can fail: a file that cannot be read or written, a
\* registry write the database rejects
NextIo ==
    \/ NextSeq
    \/ IoError(1)
    \/ DbError(1)
    \/ ResumeErr(1)

SpecIo == InitSeq /\ [][NextIo]_vars

\* one run and purge sweeps at any of its awaits
NextPurge ==
    \/ NextSeq
    \/ PurgeStart
    \/ PurgeSweep

SpecPurge == InitSeq /\ [][NextPurge]_vars

\* ------------------------------------------------------------------ claims

\* C1: no code is the code of two pages placed into cut bundles, over any
\* interleaving of fulfilment runs without a return operation
C1_NoCodeBundledTwice ==
    \A p \in bundled, q \in bundled : p.code = q.code => p = q

\* ---- what a step of a run did, read off the state before and after it
Min(a, b) == IF a <= b THEN a ELSE b
Last(sq) == sq[Len(sq)]
\* the quantity cell is not a number, or is a number <= 0
BadQty(cell) == cell.k = "text" \/ cell.v <= 0
\* cut_first_n_pages_unique returns to build_pdf_from_dataframe in this step
CutReturns(r) == pc[r] \in {"scan", "regDone"} /\ pc'[r] = "loop" /\ cut[r].n > 0
\* the processing of a row with an accepted quantity ends in this step
LineEnds(r) ==
    /\ pc[r] \in {"row", "scan", "regDone", "regErr"}
    /\ pc'[r] = "loop"
    /\ ~BadQty(line[r].cell)
\* pages of the part the step added to cut_parts, 0 if it added none
GotPages(r) ==
    IF cutParts'[r] # cutParts[r] THEN Len(bundles'[Last(cutParts'[r])]) ELSE 0
\* amount of the shortage record the step added, 0 if it added none
ShortAdded(r) ==
    IF shortages'[r] # shortages[r] THEN Last(shortages'[r]).amount ELSE 0
Codeless(pages) == SelectSeq(pages, LAMBDA p : p.code = NoCode)
\* every page of the document read has a code, all different, none registered
AllFresh(c) ==
    /\ \A i \in 1..Len(c.snap) : c.snap[i].code \in Codes \ c.reg0
    /\ \A i, j \in 1..Len(c.snap) : c.snap[i].code = c.snap[j].code => i = j

\* C3: on a document of P >= 1 pages with distinct unregistered codes the cut
\* returns the first min(n, P) pages as its bundle and the shortage
\* max(0, n - P); in general the shortage is max(0, n - new pages obtained)
C3_QuotaConservation ==
    [][\A r \in Runs : CutReturns(r) =>
          LET c == cut[r]
              P == Len(c.snap)
              k == Min(c.n, P)
          IN /\ ShortAdded(r) = Max(0, c.n - GotPages(r))
             /\ (AllFresh(c) /\ P >= 1) =>
                   /\ cutParts'[r] = Append(cutParts[r], <<c.src, k>>)
                   /\ bundles'[<<c.src, k>>] = SubSeq(c.snap, 1, k)
                   /\ ShortAdded(r) = IF c.n > P THEN c.n - P ELSE 0
      ]_vars

\* a document of two fresh pages was cut with n = 2: the bundle is the document
C3_Witness ==
    \E d \in Docs :
        /\ Len(docs0[d]) = 2
        /\ docs0[d][1].code # docs0[d][2].code
        /\ \A i \in 1..2 : docs0[d][i].code # NoCode
        /\ pc[1] = "loop" /\ li[1] = 1
        /\ cutParts[1] = <<<<d, 2>>>>
        /\ bundles[<<d, 2>>] = docs0[d]
        /\ shortages[1] = <<>>

\* C4: pages with codes [A, A, B], none registered, quota 2: the bundle is the
\* first and the third page, no shortage, and the source document is deleted
IsAAB(c) ==
    /\ Len(c.snap) = 3
    /\ c.snap[1].code = c.snap[2].code
    /\ c.snap[3].code # c.snap[1].code
    /\ {c.snap[1].code, c.snap[3].code} \subseteq Codes \ c.reg0
C4_DuplicatePurged ==
    [][\A r \in Runs : (CutReturns(r) /\ IsAAB(cut[r]) /\ cut[r].n = 2) =>
          /\ cutParts'[r] = Append(cutParts[r], <<cut[r].src, 2>>)
          /\ bundles'[<<cut[r].src, 2>>] = <<cut[r].snap[1], cut[r].snap[3]>>
          /\ shortages'[r] = shortages[r]
          /\ docs'[cut[r].src] = <<>>
      ]_vars

C4_Witness ==
    \E d \in Docs :
        /\ Len(docs0[d]) = 3
        /\ docs0[d][1].code = docs0[d][2].code
        /\ docs0[d][3].code \notin {docs0[d][1].code, NoCode}
        /\ docs0[d][1].code # NoCode
        /\ pc[1] = "loop" /\ li[1] = 1
        /\ cutParts[1] = <<<<d, 2>>>>
        /\ bundles[<<d, 2>>] = <<docs0[d][1], docs0[d][3]>>
        /\ docs[d] = <<>>
        /\ shortages[1] = <<>>

\* C5: a cut with n >= 1 that finds no page with a new code returns no bundle
\* and the shortage n, and leaves in the source exactly the pages without a
\* code (every page with a registered code is removed; no file when none is left)
C5_ZeroNew ==
    [][\A r \in Runs : (CutReturns(r) /\ CodesOf(cut[r].snap) \subseteq cut[r].reg0) =>
          /\ cutParts'[r] = cutParts[r]
          /\ bundles' = bundles
          /\ shortages'[r] =
                 Append(shortages[r], ShortageRec(line[r].key, cut[r].n))
          /\ docs'[cut[r].src] = Codeless(cut[r].snap)
      ]_vars

\* the second row found only a page whose code the first row had registered:
\* a part from d1, the full quantity short, and d2 gone
C5_Witness ==
    /\ Len(docs0["d1"]) = 1 /\ Len(docs0["d2"]) = 1
    /\ docs0["d1"][1].code = docs0["d2"][1].code
    /\ docs0["d1"][1].code # NoCode
    /\ pc[1] = "loop" /\ li[1] = 2
    /\ cutParts[1] = <<<<"d1", 1>>>>
    /\ Len(shortages[1]) = 1 /\ shortages[1][1].amount = 2
    /\ docs["d2"] = <<>>

\* C6: a page without a code is never removed from its document by a cut or
\* by the purge sweep, never placed in a bundle and never counted toward a
\* quota: every document keeps its code-less pages, in their order
C6_CodelessUntouched ==
    /\ \A d \in Docs : Codeless(docs[d]) = Codeless(docs0[d])
    /\ \A p \in bundled : p.code # NoCode
    /\ \A b \in DOMAIN bundles : Codeless(bundles[b]) = <<>>
    /\ Codeless(docs["result"]) = <<>>
    /\ \A r \in Runs :
          /\ Codeless(cut[r].head) = <<>>
          /\ \A i \in cut[r].del : cut[r].snap[i].code # NoCode

\* of the pages [A, none, A] a cut with n = 1 bundled the first and a purge
\* sweep after the commit removed the third: the page without a code is left
C6_Witness ==
    \E d \in Docs :
        /\ Len(docs0[d]) = 3
        /\ docs0[d][1].code # NoCode
        /\ docs0[d][2].code = NoCode
        /\ docs0[d][3].code = docs0[d][1].code
        /\ li[1] = 1 /\ shortages[1] = <<>>
        /\ cutParts[1] = <<<<d, 1>>>>
        /\ bundled = {docs0[d][1]}
        /\ purges = 1
        /\ docs[d] = <<docs0[d][2]>>

\* C7 as stated: when the candidate documents together hold at least q fresh
\* distinct codes, the line is fully served and records no shortage
C7_ServedAcrossDocuments ==
    [][\A r \in Runs : (LineEnds(r) /\ line[r].fresh >= line[r].cell.v) =>
          shortages'[r] = shortages[r]
      ]_vars

\* C8: a processed line (article, size, qty) with qty >= 1 adds no shortage
\* record when qty new pages were obtained and otherwise exactly one,
\* (article, size, qty - pages obtained): the full qty without a candidate
C8_ShortageExact ==
    [][\A r \in Runs : LineEnds(r) =>
          LET q == line[r].cell.v
              got == GotPages(r)
          IN /\ got <= q
             /\ shortages'[r] =
                    IF got = q THEN shortages[r]
                    ELSE Append(shortages[r],
                             [article |-> line[r].key[1], size |-> line[r].key[2],
                              amount |-> q - got])
             /\ (pc[r] = "row" => got = 0)
      ]_vars

\* quantity 2 against a document holding one fresh page: one record, amount 1
C8_Witness ==
    \E r \in Runs, d \in Docs :
        /\ li[r] = 1 /\ pc[r] = "loop"
        /\ Len(docs0[d]) = 1
        /\ cutParts[r] = <<<<d, 1>>>>
        /\ shortages[r] = <<[article |-> "X", size |-> "M", amount |-> 1]>>

\* C9: a row whose quantity is not a number or is <= 0 is skipped: no
\* shortage record, no code registered, no document changed, no part added,
\* and the run goes on with the next row
C9_BadQuantitySkipped ==
    [][\A r \in Runs : (pc[r] = "row" /\ BadQty(line[r].cell)) =>
          /\ pc'[r] = "loop"
          /\ UNCHANGED <<docs, bundles, committed, pending, shortages, cutParts,
                         calls, bundled, li, tx>>
      ]_vars

\* one row read, nothing recorded although a candidate document exists: the
\* row was skipped (a processed row leaves a part or a shortage record)
C9_Witness ==
    /\ pc[1] = "loop" /\ li[1] = 1
    /\ Candidates(<<PageArticle, PageSize>>) # {}
    /\ shortages[1] = <<>> /\ cutParts[1] = <<>>
    /\ docs = docs0

\* C2 as stated: of all the callers of register_code_if_new(c), on a code
\* that was absent, exactly one observes true
Askers(c)  == {r \in Runs : \E b \in BOOLEAN : <<r, c, b>> \in calls}
Winners(c) == {r \in Runs : <<r, c, TRUE>> \in calls}
C2_ExactlyOneTrue ==
    \A c \in Codes : Askers(c) # {} => Cardinality(Winners(c)) = 1

\* C2 amended: of the callers whose transaction is not rolled back at most
\* one observes true for c, and exactly one when no caller is rolled back; a
\* call that returns false follows a call that returned true (two sequential
\* calls return true, false)
NotRolledBack(S) == {r \in S : tx[r] # "rolledback"}
C2_OneLiveWinner ==
    \A c \in Codes :
        /\ Cardinality(NotRolledBack(Winners(c))) <= 1
        /\ (Askers(c) # {} /\ NotRolledBack(Askers(c)) = Askers(c))
               => Cardinality(Winners(c)) = 1
        /\ (\E r \in Runs : <<r, c, FALSE>> \in calls) => Winners(c) # {}

\* two sessions raced on one code and one session called twice
C2_Witness ==
    \E c \in Codes, r \in Runs, q \in Runs :
        /\ r # q
        /\ {<<r, c, TRUE>>, <<r, c, FALSE>>, <<q, c, FALSE>>} \subseteq calls
        /\ tx[r] = "committed"
        /\ tx[q] # "rolledback"

\* C10: the rows a run inserts become durable in one step, its commit after
\* the last row, and at no other step; a run that fails before its commit
\* makes nothing durable and never commits afterwards
Ended == {"merge", "send", "done", "failed"}
C10_SingleCommit ==
    [][ /\ committed' # committed =>
              \E r \in Runs :
                  /\ pc[r] = "commit" /\ pc'[r] = "merge"
                  /\ tx[r] = "active"
                  /\ committed' = committed \cup pending[r]
        /\ \A r \in Runs :
              /\ (pc[r] = "commit" /\ pc'[r] = "merge" /\ tx[r] = "active")
                     => pending[r] \subseteq committed'
              /\ (pc[r] # "failed" /\ pc'[r] = "failed")
                     => committed' = committed /\ pending'[r] = {}
              /\ pc[r] \in Ended => pc'[r] \in Ended /\ pending'[r] = {}
      ]_vars

\* a run registered a code, then failed before its commit, and the code is
\* not in the registry
C10_Witness ==
    \E r \in Runs, c \in Codes :
        /\ pc[r] = "failed"
        /\ <<r, c, TRUE>> \in calls
        /\ c \notin committed

\* C11 as stated: when a run has ended, every code it registered that is in
\* the registry is the code of a page the run moved into a cut bundle
C11_RegisteredPageWasMoved ==
    \A r \in Runs : pc[r] \in Ended =>
        \A c \in Codes :
            (<<r, c, TRUE>> \in calls /\ c \in committed) =>
                \E p \in bundled : p.code = c

\* C12: an error raised while the document of a row is read or cut is caught
\* for that row: the row's full quantity is recorded as its shortage, no file
\* and no part changes, and the run is back in the row loop, never aborted
C12_ErrorBecomesShortage ==
    [][\A r \in Runs : pc[r] \in {"regErr", "ioErr"} =>
          \/ pc'[r] = pc[r]
          \/ /\ pc'[r] = "loop"
             /\ li'[r] = li[r]
             /\ shortages'[r] =
                    Append(shortages[r],
                        [article |-> line[r].key[1], size |-> line[r].key[2],
                         amount |-> line[r].cell.v])
             /\ UNCHANGED <<docs, bundles, cutParts>>
      ]_vars

\* the first row failed on the only page and was recorded short by its
\* quantity; the second row, processed after it, cut that page
C12_Witness ==
    \E d \in Docs :
        /\ Len(docs0[d]) = 1 /\ docs0[d][1].code # NoCode
        /\ \A e \in Docs \ {d} : docs0[e] = <<>>
        /\ li[1] = 2 /\ pc[1] = "loop"
        /\ shortages[1] = <<[article |-> "X", size |-> "M", amount |-> 1]>>
        /\ cutParts[1] = <<<<d, 1>>>>
        /\ bundled = {docs0[d][1]}

\* C13 as stated: the merged output of a run is exactly the pages the run
\* newly consumed, each once, in the order of the rows and of the pages within
\* each cut, and after the merge no intermediate bundle file is left
C13_OutputIsConsumedPages ==
    [][\A r \in Runs : (pc[r] = "merge" /\ pc'[r] # "merge") =>
          /\ pc'[r] = "send" => docs'["result"] = consumed[r]
          /\ pc'[r] = "done" => consumed[r] = <<>>
          /\ \A b \in DOMAIN bundles : bundles'[b] = <<>>
      ]_vars

\* C14: a purge sweep with the registry snapshot S leaves in every scanned
\* document exactly the pages whose code is not in S, in their order: no
\* file when every page was marked, the same file when none was
C14_SweepRemovesKnown ==
    [][(ppc = "sweep" /\ ppc' = "idle") =>
          \A f \in Files :
              docs'[f] = SelectSeq(docs[f], LAMBDA p : p.code \notin psnap)
      ]_vars

\* of the pages [A, B, A] a cut bundled the first, and a sweep with the
\* snapshot {A} removed the third and kept the second
C14_Witness ==
    \E d \in Docs :
        /\ Len(docs0[d]) = 3
        /\ docs0[d][1].code # NoCode /\ docs0[d][2].code # NoCode
        /\ docs0[d][3].code = docs0[d][1].code
        /\ docs0[d][2].code # docs0[d][1].code
        /\ bundled = {docs0[d][1]}
        /\ purges >= 1 /\ ppc = "idle"
        /\ swept.snap = {docs0[d][1].code}
        /\ swept.deleted = 1
        /\ docs[d] = <<docs0[d][2]>>

\* C15: a sweep that starts from the directory the previous sweep left and
\* reads the same registry snapshot deletes no page and no file and changes
\* no document
C15_SecondSweepNoOp ==
    [][(ppc = "sweep" /\ ppc' = "idle" /\ purges >= 1
            /\ psnap = swept.snap /\ docs = swept.docs) =>
          /\ docs' = docs
          /\ swept'.deleted = 0
      ]_vars

\* two sweeps with the snapshot {A}: the second deleted nothing, the page
\* with code A that no cut had touched is gone and its neighbour is kept
C15_Witness ==
    \E d \in Docs :
        /\ Len(docs0[d]) = 2
        /\ docs0[d][1].code # NoCode
        /\ docs0[d][2].code = docs0[d][1].code
        /\ \A e \in Docs \ {d} : Len(docs0[e]) = 1 /\ docs0[e][1].code = NoCode
        /\ bundled = {docs0[d][1]}
        /\ purges = 2 /\ ppc = "idle"
        /\ swept.snap = {docs0[d][1].code}
        /\ swept.deleted = 0
        /\ docs[d] = <<>>
        /\ docs = swept.docs

\* C18: at most `concurrency` jobs run at a time, a worker takes a new job
\* only after its current job reached a final status, jobs leave the queue in
\* the order of their submission, ids are unique, no job is started twice
JobIds == 1..Len(jobs)
C18_PoolDiscipline ==
    /\ [](/\ Cardinality({j \in JobIds : jobs[j].status = "running"}) <= Concurrency
          /\ \A i, j \in JobIds : jobs[i].id = jobs[j].id => i = j
          /\ \A j \in JobIds : jstarts[j] <= 1)
    /\ [][/\ \A j \in JobIds :
                (jobs[j].status = "queued" /\ jobs'[j].status # "queued") =>
                    \A i \in 1..(j - 1) : jobs[i].status # "queued"
          /\ \A w \in Runs :
                (wjob[w] # 0 /\ wjob'[w] # wjob[w]) =>
                    /\ wjob'[w] = 0
                    /\ jobs'[wjob[w]].status \in {"done", "failed", "cancelled"}
         ]_vars

\* three jobs submitted: the first two run side by side, the third waits
C18_Witness ==
    /\ Len(jobs) = 3
    /\ jobs[1].status = "running" /\ jobs[2].status = "running"
    /\ jobs[3].status = "queued"
    /\ \A w \in Runs : wjob[w] \in {1, 2}
    /\ jqueue = <<3>>

\* C19: a job's status moves only queued -> running -> done | failed |
\* cancelled, or queued -> failed without a handler; a handler that raises
\* leaves the job failed with its error text and its worker waiting for the
\* next job; while a worker is running every submitted job eventually has a
\* final status
SomeWorkerRuns == \E w \in Runs : wstate[w] \in {"wait", "busy"}
C19_JobsTerminate ==
    /\ [][\A j \in JobIds :
             LET a == jobs[j].status
                 b == jobs'[j].status
             IN a # b =>
                  /\ \/ a = "queued" /\ b = "running" /\ onJob
                     \/ a = "queued" /\ b = "failed" /\ ~onJob
                           /\ jobs'[j].error # "none"
                     \/ a = "running" /\ b \in {"done", "failed", "cancelled"}
                  /\ (a = "running" /\ b = "failed") =>
                        /\ jobs'[j].error = "exc"
                        /\ \A w \in Runs : wjob[w] = j => wstate'[w] = "wait"
         ]_vars
    /\ \A j \in 1..MaxJobs :
          (j \in JobIds /\ SomeWorkerRuns) ~>
              ((j \in JobIds /\ jobs[j].status \in {"done", "failed", "cancelled"})
                  \/ ~SomeWorkerRuns)

\* the handler raised on job 1, the worker of job 2 was cancelled, and job 3
\* was run to the end by the worker whose handler had raised
C19_Witness ==
    /\ Len(jobs) = 3
    /\ jobs[1].status = "failed" /\ jobs[1].error = "exc"
    /\ jobs[2].status = "cancelled"
    /\ jobs[3].status = "done"
    /\ jstarts = <<1, 1, 1>>

\* C16 as stated: when a split returns, every page with a resolved key is in
\* exactly one output document, the one of its key, there is one output
\* document per distinct key, and skipped_without_meta plus the pages of the
\* output documents is total_pages
RECURSIVE PagesIn(_)
PagesIn(S) ==
    IF S = {} THEN 0
    ELSE LET nm == CHOOSE x \in S : TRUE
         IN Len(outs[nm]) + PagesIn(S \ {nm})
C16_SplitPartitions ==
    [][(spc = "write" /\ spc' = "idle") =>
          LET keys == {ssrc[i].meta : i \in {k \in 1..Len(ssrc) : Resolved(ssrc[k].meta)}}
              paths == {souts[i].path : i \in 1..Len(souts)}
          IN /\ Cardinality(paths) = Cardinality(keys)
             /\ \A k \in keys : \E nm \in paths :
                    outs[nm] = SelectSeq(ssrc, LAMBDA p : p.meta = k)
             /\ sskipped + PagesIn(paths) = Len(ssrc)
      ]_vars

\* C17 as stated: a split only adds documents: every document of the
\* inventory keeps its pages, an output of another group included, and the
\* source document is not changed
C17_SplitOnlyAdds ==
    [][/\ \A nm \in OutNames : outs[nm] # <<>> => outs'[nm] = outs[nm]
       /\ spc = "write" => ssrc' = ssrc
      ]_vars

\* C20: when return_pdf has finished with the registry, no code of the
\* returned pages that was registered is registered any more, so that
\* register_code_if_new returns true for it again, and every registered code
\* that is on no returned page is still registered
C20_ReturnUnregisters ==
    [][(rpc \in {"lookup", "commit"} /\ rpc' = "split") =>
          LET found == {rdoc[i].code : i \in 1..Len(rdoc)} \ {NoCode}
          IN /\ committed' \cap (rbefore \cap found) = {}
             /\ committed' \cap rdel = {}
             /\ (committed \ found) \subseteq committed'
             /\ (rbefore \ found) \subseteq committed'
      ]_vars

\* a code registered before the return was removed by it and then registered
\* anew by a run, with true; a registered code not on the pages is kept
C20_Witness ==
    /\ rpc = "done"
    /\ \E c \in rbefore \cap rdel : <<1, c, TRUE>> \in calls /\ c \in committed
    /\ \E e \in rbefore : e \in committed /\ \A i \in 1..Len(rdoc) : rdoc[i].code # e

\* C21 as stated: for a text whose header line "01" + 14 digits + "21" stands
\* alone on a line and whose serial is on one of the next lines of the
\* lookahead window, the code is the header joined with the leading run (of
\* at least 4 printable characters) of the first such line, whatever the
\* 14 digits are
LeadRun(l) == IF RunLen(l, 1) >= SerialMin THEN SubSeq(l, 1, RunLen(l, 1)) ELSE <<>>
C21_HeaderPlusSerial ==
    xout.done =>
        \A h \in 1..Len(xin) :
            LET W == {j \in (h + 1)..Min(h + MaxLookahead, Len(xin)) : LeadRun(xin[j]) # <<>>}
            IN (/\ IsHeadline(xin[h])
                /\ \A k \in 1..(h - 1) : ~IsHeadline(xin[k])
                /\ W # {}) =>
                   xout.val = StripWs(xin[h])
                                \o LeadRun(xin[CHOOSE j \in W : \A m \in W : j <= m])

\* C22 as stated: a document is selected for an order line only if its text
\* holds the article as a substring, whitespace and case aside, and the size
\* as a whole token: bounded on both sides, in any case
WholeToken(s, t) ==
    \E p \in 1..(Len(t) - Len(s) + 1) :
        /\ \A k \in 1..Len(s) : Lower(t[p + k - 1]) = Lower(s[k])
        /\ (p = 1 \/ ~IsWord(t[p - 1]))
        /\ (p + Len(s) > Len(t) \/ ~IsWord(t[p + Len(s)]))
C22_WholeSizeToken ==
    (xout.done /\ xout.val) =>
        /\ Contains(StripAllWs(xin.text), StripAllWs(xin.article))
        /\ WholeToken(xin.size, xin.text)

\* ---- a cut that returns: the pages it examined and the pages it moved
\* indexes of the pages for which register_code_if_new was called
Examined(r) == cut[r].del \cup (IF pc[r] = "regDone" THEN {cut[r].idx} ELSE {})
\* the pages the returning cut wrote into its head bundle
MovedNow(r) == SubSeq(consumed'[r], Len(consumed[r]) + 1, Len(consumed'[r]))
InSeq(p, sq) == \E i \in 1..Len(sq) : sq[i] = p

\* C23: when a cut returns, the source document holds exactly the pages it
\* read that were neither moved into the bundle nor discarded as duplicates,
\* in their order (no file when none is left); a page behind the page at
\* which the quota was reached is not examined, not registered, not removed
C23_SourceIsRemainder ==
    [][\A r \in Runs : CutReturns(r) =>
          LET c == cut[r]
              gone == {c.snap[i] : i \in Examined(r)}
          IN /\ \A i \in 1..Len(MovedNow(r)) : MovedNow(r)[i] \in gone
             /\ docs'[c.src] = SelectSeq(c.snap, LAMBDA p : p \notin gone)
             /\ \A i \in 1..Len(c.snap) :
                   (\A k \in Examined(r) : k < i) =>
                       /\ i \notin Examined(r)
                       /\ InSeq(c.snap[i], docs'[c.src])
                       /\ (c.snap[i].code # NoCode /\ c.snap[i].code \notin CodesOf(SubSeq(c.snap, 1, i - 1)))
                              => \A b \in BOOLEAN : <<r, c.snap[i].code, b>> \notin calls' \/ c.snap[i].code \in c.reg0
             /\ Len(MovedNow(r)) = c.n =>
                   \A i \in Examined(r) : \A k \in 1..Len(c.snap) :
                       c.snap[k] = Last(MovedNow(r)) => i <= k
      ]_vars

\* of the pages [A, B, A] a cut with n = 1 moved the first: the second and
\* the third are left, and B was never registered
C23_Witness ==
    \E d \in Docs :
        /\ Len(docs0[d]) = 3
        /\ docs0[d][1].code = "A" /\ docs0[d][2].code = "B" /\ docs0[d][3].code = "A"
        /\ li[1] = 1 /\ pc[1] = "loop"
        /\ consumed[1] = <<docs0[d][1]>>
        /\ docs[d] = <<docs0[d][2], docs0[d][3]>>
        /\ calls = {<<1, "A", TRUE>>}

\* C24 as stated: when a cut returns, no page left in the source document
\* carries a code that is in the registry
C24_NoRegisteredPageLeft ==
    [][\A r \in Runs : CutReturns(r) =>
          \A i \in 1..Len(docs'[cut[r].src]) :
              docs'[cut[r].src][i].code \notin committed' \cup pending'[r]
      ]_vars

\* C24 amended: when a cut returns, no page it examined is left in the source
\* document with a code (each was moved, or discarded as the duplicate of a
\* registered code), the pages moved are those with a code not registered
\* before, one page per code, and only they count toward the quota
C24_NoExaminedDuplicateLeft ==
    [][\A r \in Runs : CutReturns(r) =>
          LET c == cut[r]
              last == IF Examined(r) = {} THEN 0
                      ELSE CHOOSE k \in Examined(r) : \A m \in Examined(r) : m <= k
              fresh == (committed' \cup pending'[r]) \ c.reg0
          IN /\ \A i \in 1..last :
                   InSeq(c.snap[i], docs'[c.src]) => c.snap[i].code = NoCode
             /\ \A i \in 1..last :
                   c.snap[i].code # NoCode => c.snap[i].code \in committed' \cup pending'[r]
             /\ Len(MovedNow(r)) = Cardinality(fresh)
             /\ {MovedNow(r)[i].code : i \in 1..Len(MovedNow(r))} = fresh
             /\ Len(MovedNow(r)) <= c.n
             /\ ShortAdded(r) = c.n - Len(MovedNow(r))
      ]_vars

\* of the pages [A, A, none] a cut with n = 2 moved the first and discarded
\* the second: one page short, the page without a code is left
C24_Witness ==
    \E d \in Docs :
        /\ Len(docs0[d]) = 3
        /\ docs0[d][1].code = "A" /\ docs0[d][2].code = "A" /\ docs0[d][3].code = NoCode
        /\ li[1] = 1 /\ pc[1] = "loop"
        /\ consumed[1] = <<docs0[d][1]>>
        /\ docs[d] = <<docs0[d][3]>>
        /\ calls = {<<1, "A", TRUE>>, <<1, "A", FALSE>>}
        /\ shortages[1] = <<[article |-> "X", size |-> "M", amount |-> 1]>>

\* C25: while a document is rewritten by a cut or by the sweep, the file in
\* PDF_DIR holds its complete page sequence of before or its complete
\* sequence of kept pages (no file when no page is kept), every other
\* document is as it was, and a write that fails leaves the original
C25_NeverHalfRewritten ==
    rw.pc # "idle" =>
        LET src == rw.c.src
            kept == SelectSeq(rw.before[src],
                        LAMBDA p : \A k \in rw.c.del : rw.c.snap[k] # p)
        IN /\ docs[src] \in {rw.before[src], kept}
           /\ \A f \in Files \ {src} : docs[f] = rw.before[f]
           /\ rw.pc \in {"head", "tail", "write", "failed"} => docs[src] = rw.before[src]
           /\ rw.pc = "done" => docs[src] = kept

\* a cut moved the first of three pages, and the write of the two pages kept
\* failed after the first: the temporary file is half written, the document
\* is the original
C25_Witness ==
    /\ rw.pc = "failed" /\ rw.kind = "cut"
    /\ Len(rw.c.snap) = 3 /\ rw.c.del = {1} /\ Len(rw.c.head) = 1
    /\ Len(tmpf) = 1
    /\ docs[rw.c.src] = rw.c.snap
    /\ bundles[<<rw.c.src, 1>>] = rw.c.head

\* C26 as stated: between the moment a cut reads the pages of a document and
\* the moment it rewrites or deletes the document no other cut has rewritten
\* it: the document rewritten is still the page list the rewrite was
\* computed from
C26_NoStaleRewrite ==
    [][\A r \in Runs :
          (CutReturns(r) /\ docs'[cut[r].src] # docs[cut[r].src]) =>
              docs[cut[r].src] = cut[r].snap
      ]_vars

\* C27 as stated: bundles and the merged output belong to one run: two runs
\* under way never hold the same bundle file among their parts, and never
\* both have their output in the same file waiting to be sent
PartsOf(r) == {cutParts[r][i] : i \in 1..Len(cutParts[r])}
BeforeMerge == {"loop", "row", "scan", "reg", "regDone", "regErr", "ioErr", "commit", "merge"}
C27_RunLocalFiles ==
    \A r \in Runs : \A q \in Runs \ {r} :
        /\ (pc[r] \in BeforeMerge /\ pc[q] \in BeforeMerge) => PartsOf(r) \cap PartsOf(q) = {}
        /\ ~(pc[r] = "send" /\ pc[q] = "send")

\* C28 as stated: once a run has ended, the code of every page it took out of
\* an inventory document is durably in the registry; a run whose commit
\* failed or whose transaction was rolled back has taken no page
C28_RemovedPageIsRegistered ==
    \A r \in Runs : pc[r] \in Ended =>
        \A i \in 1..Len(consumed[r]) : consumed[r][i].code \in committed

\* C29 as stated: while the merged output of a run waits to be sent, no step
\* other than the run's own delivery changes or deletes it, and no cut ever
\* takes the output file as its source document
C29_OutputUntouched ==
    [][/\ \A r \in Runs :
             (pc[r] = "send" /\ pc'[r] = "send") => docs'["result"] = docs["result"]
       /\ \A r \in Runs : cut'[r].src # "result"
      ]_vars

\* C30 as stated: a stop() on a running queue whose handlers all end returns;
\* when it returns every job submitted before the call is done or failed,
\* every worker has left its loop and the queue is not running; start() on a
\* running queue and stop() on a stopped queue change nothing
C30_StopDrains ==
    /\ [][(stopst.pc = "join" /\ stopst'.pc = "idle") =>
             /\ \A j \in 1..stopst.njobs : jobs[j].status \in {"done", "failed"}
             /\ \A j \in 1..stopst.njobs : jobs'[j] = jobs[j]
             /\ \A w \in Runs : wstate[w] = "exited"
             /\ ~running'
         ]_vars
    /\ [][(qlast' # qlast /\ qlast' \in {"startNoop", "stopNoop"}) =>
             UNCHANGED <<jqueue, jobs, wjob, wstate, jseq, onJob, jstarts, running, stopst>>
         ]_vars
    /\ (stopst.pc = "join") ~> (stopst.pc = "idle")

====
